---- MODULE Spec2Model ----
(***************************************************************************)
(* State machine of the incarra_agent program                              *)
(* (programs/incarra-contract/src/lib.rs): one IncarraAgent account, the   *)
(* program-derived address of one user, and the instructions that create   *)
(* and update it.                                                          *)
(*                                                                         *)
(* Modelling conventions                                                   *)
(*   - A String is modelled by its byte length (String::len()). A          *)
(*     knowledge area, which the program compares for equality, is a       *)
(*     record [len, id]: two knowledge areas are the same string iff       *)
(*     both fields agree.                                                  *)
(*   - u64 fields are kept at a reduced width, U64Modulus = 2^U64Bits.     *)
(*     `+=` on a u64 panics when the program is built with overflow        *)
(*     checks and wraps otherwise; overflow_checks is the build's choice.  *)
(*   - An instruction is one atomic step: the runtime discards every       *)
(*     write and every event of an instruction that returns an error or    *)
(*     panics.                                                             *)
(***************************************************************************)
EXTENDS Integers, Sequences, FiniteSets, TLC

VARIABLES
    initialized,      \* the account exists (created by `init`)
    incarra,          \* the IncarraAgent account data
    clock,            \* Clock::get()?.unix_timestamp
    overflow_checks,  \* build profile: does u64 `+=` panic on overflow
    call,             \* the last instruction invoked
    result,           \* its result: "Ok" or the error
    events,           \* the events it emitted
    interactions_ok,  \* history: successful interact_with_incarra calls
    verify_bonus,     \* history: reputation granted by verify_carv_id
    verifies_ok,      \* history: successful verify_carv_id calls
    interaction_gains \* history: reputation gains of the successful interactions

vars == <<initialized, incarra, clock, overflow_checks, call, result, events,
          interactions_ok, verify_bonus, verifies_ok, interaction_gains>>

(***************************************************************************)
(* Bounds of the exploration                                               *)
(***************************************************************************)
U64Bits == 12
MaxCost == 3
ShortList == 1

(***************************************************************************)
(* Program constants                                                       *)
(***************************************************************************)
MaxCarvIdLen == 42
MinProofLen == 10
MaxCredentials == 10
MaxAchievements == 20
MaxKnowledgeAreaLen == 30
MaxKnowledgeAreas == 20
MaxPersonalityLen == 200
MaxAgentNameLen == 50
VerifiedBonus == 50
CredentialScore == 10
KnowledgeAreaReputation == 2
ExperiencePerLevel == 100
Space == 8 + 32 + 54 + 204 + 8 + 8 + 46 + 1 + 134 + 8 + 1004 + 1604
         + 8 + 8 + 8 + 8 + 8 + 8 + 8 + 684 + 1 + 200

U64Modulus == 2 ^ U64Bits
U64Max == U64Modulus - 1

Users == {"alice", "mallory"}
\* The account modelled is the program-derived address of this user.
AccountUser == "alice"

InteractionType == {"ResearchQuery", "DataAnalysis", "Conversation", "ProblemSolving"}

(***************************************************************************)
(* u64 arithmetic                                                          *)
(***************************************************************************)
Overflows(x) == x >= U64Modulus
WrapU64(x) == x % U64Modulus

(***************************************************************************)
(* Account data and its serialized size                                    *)
(***************************************************************************)
\* The zero-filled data of an account that `init` has not yet written.
ZeroAccount ==
    [owner |-> "none", agent_name |-> 0, personality |-> 0, created_at |-> 0,
     last_interaction |-> 0, carv_id |-> 0, carv_verified |-> FALSE,
     verification_signature |-> 0, reputation_score |-> 0,
     credentials |-> <<>>, achievements |-> <<>>,
     level |-> 0, experience |-> 0, reputation |-> 0, total_interactions |-> 0,
     research_projects |-> 0, data_sources_connected |-> 0, ai_conversations |-> 0,
     knowledge_areas |-> <<>>, is_active |-> FALSE]

RECURSIVE Sum(_)
Sum(s) == IF s = <<>> THEN 0 ELSE Head(s) + Sum(Tail(s))

\* Borsh: a String is a 4-byte length and its bytes, a Vec a 4-byte count and
\* its elements, u64/i64 8 bytes, bool 1 byte.
CredentialSize(c) == (4 + c.credential_type) + (4 + c.credential_data) + (4 + c.issuer) + 8 + 1
AchievementSize(x) == (4 + x.name) + (4 + x.description) + 8 + 8
KnowledgeAreaSize(k) == 4 + k.len

SerializedSize(a) ==
    8 + 32 + (4 + a.agent_name) + (4 + a.personality) + 8 + 8
      + (4 + a.carv_id) + 1 + (4 + a.verification_signature) + 8
      + (4 + Sum([i \in DOMAIN a.credentials |-> CredentialSize(a.credentials[i])]))
      + (4 + Sum([i \in DOMAIN a.achievements |-> AchievementSize(a.achievements[i])]))
      + 8 + 8 + 8 + 8
      + 8 + 8 + 8
      + (4 + Sum([i \in DOMAIN a.knowledge_areas |-> KnowledgeAreaSize(a.knowledge_areas[i])]))
      + 1

(***************************************************************************)
(* Outcome of an instruction: its result, the account data it leaves and   *)
(* the events it emits. The runtime discards the writes of an instruction  *)
(* that fails: Fail leaves the data the instruction found.                 *)
(***************************************************************************)
Outcome(res, a, ev) == [result |-> res, state |-> a, events |-> ev]
Fail(a, err) == Outcome(err, a, <<>>)

\* Mutant: only the first entry is compared.
Contains_FirstOnly(s, x) == Len(s) > 0 /\ s[1] = x

Contains(s, x) == \E i \in 1..Len(s) : s[i] = x

(***************************************************************************)
(* Instruction handlers                                                    *)
(***************************************************************************)
create_incarra_agent(a, user, agent_name, personality, carv_id, verification_signature, now) ==
    IF carv_id = 0 \/ carv_id > MaxCarvIdLen
    THEN Fail(a, "InvalidCarvId")
    ELSE Outcome("Ok",
                 [a EXCEPT !.owner = user,
                           !.agent_name = agent_name,
                           !.personality = personality,
                           !.created_at = now,
                           !.last_interaction = now,
                           !.carv_id = carv_id,
                           !.carv_verified = FALSE,
                           !.verification_signature = verification_signature,
                           !.reputation_score = 0,
                           !.credentials = <<>>,
                           !.achievements = <<>>,
                           !.level = 1,
                           !.experience = 0,
                           !.reputation = 0,
                           !.total_interactions = 0,
                           !.research_projects = 0,
                           !.data_sources_connected = 0,
                           !.ai_conversations = 0,
                           !.knowledge_areas = <<>>,
                           !.is_active = TRUE],
                 << [event |-> "IncarraAgentCreated", owner |-> user,
                     agent_name |-> agent_name, carv_id |-> carv_id] >>)

verify_carv_id(a, verification_proof, now) ==
    IF verification_proof < MinProofLen
    THEN Fail(a, "InvalidVerificationProof")
    ELSE LET reputation == a.reputation + VerifiedBonus
         IN  IF overflow_checks /\ Overflows(reputation)
             THEN Fail(a, "Panic")
             ELSE Outcome("Ok",
                          [a EXCEPT !.carv_verified = TRUE,
                                    !.reputation = WrapU64(reputation)],
                          << [event |-> "CarvIdVerified", carv_id |-> a.carv_id,
                              timestamp |-> now] >>)

\* Mutant: the capacity is checked before the verification.
add_credential_CapacityFirst(a, credential_type, credential_data, issuer, now) ==
    IF Len(a.credentials) >= MaxCredentials
    THEN Fail(a, "TooManyCredentials")
    ELSE IF ~a.carv_verified
    THEN Fail(a, "CarvIdNotVerified")
    ELSE LET credential == [credential_type |-> credential_type,
                            credential_data |-> credential_data,
                            issuer |-> issuer,
                            issued_at |-> now,
                            is_verified |-> FALSE]
             reputation_score == a.reputation_score + CredentialScore
         IN  IF overflow_checks /\ Overflows(reputation_score)
             THEN Fail(a, "Panic")
             ELSE Outcome("Ok",
                          [a EXCEPT !.credentials = Append(@, credential),
                                    !.reputation_score = WrapU64(reputation_score)],
                          << [event |-> "CredentialAdded",
                              credential_type |-> credential_type,
                              issuer |-> issuer] >>)

add_credential(a, credential_type, credential_data, issuer, now) ==
    IF ~a.carv_verified
    THEN Fail(a, "CarvIdNotVerified")
    ELSE IF Len(a.credentials) >= MaxCredentials
    THEN Fail(a, "TooManyCredentials")
    ELSE LET credential == [credential_type |-> credential_type,
                            credential_data |-> credential_data,
                            issuer |-> issuer,
                            issued_at |-> now,
                            is_verified |-> FALSE]
             reputation_score == a.reputation_score + CredentialScore
         IN  IF overflow_checks /\ Overflows(reputation_score)
             THEN Fail(a, "Panic")
             ELSE Outcome("Ok",
                          [a EXCEPT !.credentials = Append(@, credential),
                                    !.reputation_score = WrapU64(reputation_score)],
                          << [event |-> "CredentialAdded",
                              credential_type |-> credential_type,
                              issuer |-> issuer] >>)

\* Mutant: the capacity is checked after the push, and the error is returned
\* with the entry already written.
add_achievement_CheckAfterPush(a, achievement_name, achievement_description, achievement_score, now) ==
    LET achievement == [name |-> achievement_name,
                        description |-> achievement_description,
                        score |-> achievement_score,
                        earned_at |-> now]
        pushed == [a EXCEPT !.achievements = Append(@, achievement)]
        reputation_score == a.reputation_score + achievement_score
    IN  IF Len(pushed.achievements) > MaxAchievements
        THEN Outcome("TooManyAchievements", pushed, <<>>)
        ELSE IF overflow_checks /\ Overflows(reputation_score)
        THEN Fail(a, "Panic")
        ELSE Outcome("Ok",
                     [pushed EXCEPT !.reputation_score = WrapU64(reputation_score)],
                     << [event |-> "AchievementEarned",
                         achievement_name |-> achievement_name,
                         score |-> achievement_score] >>)

add_achievement(a, achievement_name, achievement_description, achievement_score, now) ==
    IF Len(a.achievements) >= MaxAchievements
    THEN Fail(a, "TooManyAchievements")
    ELSE LET achievement == [name |-> achievement_name,
                             description |-> achievement_description,
                             score |-> achievement_score,
                             earned_at |-> now]
             reputation_score == a.reputation_score + achievement_score
         IN  IF overflow_checks /\ Overflows(reputation_score)
             THEN Fail(a, "Panic")
             ELSE Outcome("Ok",
                          [a EXCEPT !.achievements = Append(@, achievement),
                                    !.reputation_score = WrapU64(reputation_score)],
                          << [event |-> "AchievementEarned",
                              achievement_name |-> achievement_name,
                              score |-> achievement_score] >>)

\* Mutant: every interaction type earns the gain of a ResearchQuery.
BaseReputation_Flat(interaction_type) == 3

BaseReputation(interaction_type) ==
    CASE interaction_type = "ResearchQuery" -> 3
      [] interaction_type = "DataAnalysis" -> 5
      [] interaction_type = "Conversation" -> 1
      [] interaction_type = "ProblemSolving" -> 4

ReputationGain(a, interaction_type) ==
    IF a.carv_verified THEN BaseReputation(interaction_type) + 1
                       ELSE BaseReputation(interaction_type)

\* Mutant: the ProblemSolving arm updates no counter.
UpdateCounters_NoProblemSolving(a, interaction_type) ==
    CASE interaction_type = "ResearchQuery" ->
             [a EXCEPT !.research_projects = @ + 1]
      [] interaction_type = "DataAnalysis" ->
             [a EXCEPT !.data_sources_connected = @ + 1]
      [] interaction_type = "Conversation" ->
             [a EXCEPT !.ai_conversations = @ + 1]
      [] interaction_type = "ProblemSolving" -> a

\* The counters after the `match` that updates one of them.
UpdateCounters(a, interaction_type) ==
    CASE interaction_type = "ResearchQuery" ->
             [a EXCEPT !.research_projects = @ + 1]
      [] interaction_type = "DataAnalysis" ->
             [a EXCEPT !.data_sources_connected = @ + 1]
      [] interaction_type = "Conversation" ->
             [a EXCEPT !.ai_conversations = @ + 1]
      [] interaction_type = "ProblemSolving" ->
             [a EXCEPT !.research_projects = @ + 1]

NewLevel(experience) == (experience \div ExperiencePerLevel) + 1

\* The level-up check: the level stored and the event emitted.
LevelUp(a) ==
    LET new_level == NewLevel(a.experience)
    IN  IF new_level > a.level
        THEN Outcome("Ok", [a EXCEPT !.level = new_level],
                     << [event |-> "IncarraLevelUp",
                         old_level |-> new_level - 1,
                         new_level |-> new_level,
                         total_experience |-> a.experience] >>)
        ELSE Outcome("Ok", a, <<>>)

\* Mutant: the interaction event is emitted in the else branch of the level-up check.
interact_with_incarra_EventInElse(a, interaction_type, experience_gained, now) ==
    LET reputation_gain == ReputationGain(a, interaction_type)
        stats == [a EXCEPT !.total_interactions = @ + 1,
                           !.experience = @ + experience_gained,
                           !.last_interaction = now,
                           !.reputation = @ + reputation_gain,
                           !.reputation_score = @ + reputation_gain]
        sums == UpdateCounters(stats, interaction_type)
        overflow == \/ Overflows(sums.total_interactions)
                    \/ Overflows(sums.experience)
                    \/ Overflows(sums.reputation)
                    \/ Overflows(sums.reputation_score)
                    \/ Overflows(sums.research_projects)
                    \/ Overflows(sums.data_sources_connected)
                    \/ Overflows(sums.ai_conversations)
        wrapped == [sums EXCEPT !.total_interactions = WrapU64(@),
                                !.experience = WrapU64(@),
                                !.reputation = WrapU64(@),
                                !.reputation_score = WrapU64(@),
                                !.research_projects = WrapU64(@),
                                !.data_sources_connected = WrapU64(@),
                                !.ai_conversations = WrapU64(@)]
        levelled == LevelUp(wrapped)
    IN  IF overflow_checks /\ overflow
        THEN Fail(a, "Panic")
        ELSE Outcome("Ok", levelled.state,
                     IF levelled.events # <<>> THEN levelled.events ELSE
                     << [event |-> "IncarraInteraction",
                         interaction_type |-> interaction_type,
                         experience_gained |-> experience_gained,
                         new_reputation |-> levelled.state.reputation,
                         timestamp |-> now] >>)

interact_with_incarra(a, interaction_type, experience_gained, now) ==
    LET reputation_gain == ReputationGain(a, interaction_type)
        stats == [a EXCEPT !.total_interactions = @ + 1,
                           !.experience = @ + experience_gained,
                           !.last_interaction = now,
                           !.reputation = @ + reputation_gain,
                           !.reputation_score = @ + reputation_gain]
        sums == UpdateCounters(stats, interaction_type)
        overflow == \/ Overflows(sums.total_interactions)
                    \/ Overflows(sums.experience)
                    \/ Overflows(sums.reputation)
                    \/ Overflows(sums.reputation_score)
                    \/ Overflows(sums.research_projects)
                    \/ Overflows(sums.data_sources_connected)
                    \/ Overflows(sums.ai_conversations)
        wrapped == [sums EXCEPT !.total_interactions = WrapU64(@),
                                !.experience = WrapU64(@),
                                !.reputation = WrapU64(@),
                                !.reputation_score = WrapU64(@),
                                !.research_projects = WrapU64(@),
                                !.data_sources_connected = WrapU64(@),
                                !.ai_conversations = WrapU64(@)]
        levelled == LevelUp(wrapped)
    IN  IF overflow_checks /\ overflow
        THEN Fail(a, "Panic")
        ELSE Outcome("Ok", levelled.state,
                     levelled.events \o
                     << [event |-> "IncarraInteraction",
                         interaction_type |-> interaction_type,
                         experience_gained |-> experience_gained,
                         new_reputation |-> levelled.state.reputation,
                         timestamp |-> now] >>)

\* Mutant: the reputation is awarded outside the duplicate check.
add_knowledge_area_RewardsDuplicate(a, knowledge_area) ==
    IF knowledge_area.len > MaxKnowledgeAreaLen
    THEN Fail(a, "KnowledgeAreaTooLong")
    ELSE IF Len(a.knowledge_areas) >= MaxKnowledgeAreas
    THEN Fail(a, "TooManyKnowledgeAreas")
    ELSE LET fresh == ~Contains(a.knowledge_areas, knowledge_area)
             reputation == a.reputation + KnowledgeAreaReputation
             reputation_score == a.reputation_score + KnowledgeAreaReputation
             pushed == IF fresh THEN Append(a.knowledge_areas, knowledge_area)
                                ELSE a.knowledge_areas
         IN  IF overflow_checks /\ (Overflows(reputation) \/ Overflows(reputation_score))
             THEN Fail(a, "Panic")
             ELSE Outcome("Ok",
                          [a EXCEPT !.knowledge_areas = pushed,
                                    !.reputation = WrapU64(reputation),
                                    !.reputation_score = WrapU64(reputation_score)],
                          IF fresh
                          THEN << [event |-> "KnowledgeAreaAdded",
                                   knowledge_area |-> knowledge_area,
                                   total_areas |-> Len(pushed)] >>
                          ELSE <<>>)

\* Mutant: the capacity check admits a list that is already full.
add_knowledge_area_OffByOne(a, knowledge_area) ==
    IF knowledge_area.len > MaxKnowledgeAreaLen
    THEN Fail(a, "KnowledgeAreaTooLong")
    ELSE IF Len(a.knowledge_areas) > MaxKnowledgeAreas
    THEN Fail(a, "TooManyKnowledgeAreas")
    ELSE IF ~Contains(a.knowledge_areas, knowledge_area)
    THEN LET reputation == a.reputation + KnowledgeAreaReputation
             reputation_score == a.reputation_score + KnowledgeAreaReputation
             pushed == Append(a.knowledge_areas, knowledge_area)
         IN  IF overflow_checks /\ (Overflows(reputation) \/ Overflows(reputation_score))
             THEN Fail(a, "Panic")
             ELSE Outcome("Ok",
                          [a EXCEPT !.knowledge_areas = pushed,
                                    !.reputation = WrapU64(reputation),
                                    !.reputation_score = WrapU64(reputation_score)],
                          << [event |-> "KnowledgeAreaAdded",
                              knowledge_area |-> knowledge_area,
                              total_areas |-> Len(pushed)] >>)
    ELSE Outcome("Ok", a, <<>>)

add_knowledge_area(a, knowledge_area) ==
    IF knowledge_area.len > MaxKnowledgeAreaLen
    THEN Fail(a, "KnowledgeAreaTooLong")
    ELSE IF Len(a.knowledge_areas) >= MaxKnowledgeAreas
    THEN Fail(a, "TooManyKnowledgeAreas")
    ELSE IF ~Contains(a.knowledge_areas, knowledge_area)
    THEN LET reputation == a.reputation + KnowledgeAreaReputation
             reputation_score == a.reputation_score + KnowledgeAreaReputation
             pushed == Append(a.knowledge_areas, knowledge_area)
         IN  IF overflow_checks /\ (Overflows(reputation) \/ Overflows(reputation_score))
             THEN Fail(a, "Panic")
             ELSE Outcome("Ok",
                          [a EXCEPT !.knowledge_areas = pushed,
                                    !.reputation = WrapU64(reputation),
                                    !.reputation_score = WrapU64(reputation_score)],
                          << [event |-> "KnowledgeAreaAdded",
                              knowledge_area |-> knowledge_area,
                              total_areas |-> Len(pushed)] >>)
    ELSE Outcome("Ok", a, <<>>)

\* Mutant: an inactive agent is turned away.
update_personality_ChecksActive(a, new_personality) ==
    IF ~a.is_active
    THEN Fail(a, "AgentInactive")
    ELSE IF new_personality > MaxPersonalityLen
    THEN Fail(a, "PersonalityTooLong")
    ELSE Outcome("Ok", [a EXCEPT !.personality = new_personality], <<>>)

update_personality(a, new_personality) ==
    IF new_personality > MaxPersonalityLen
    THEN Fail(a, "PersonalityTooLong")
    ELSE Outcome("Ok", [a EXCEPT !.personality = new_personality], <<>>)

\* Mutant: the flag is flipped rather than cleared.
deactivate_incarra_Toggle(a) ==
    Outcome("Ok", [a EXCEPT !.is_active = ~a.is_active], <<>>)

deactivate_incarra(a) ==
    Outcome("Ok", [a EXCEPT !.is_active = FALSE], <<>>)

(***************************************************************************)
(* Account validation around the handlers                                  *)
(***************************************************************************)
\* Account<'info, IncarraAgent> is written back when the instruction ends;
\* data that does not fit the space allocated by `init` fails the instruction.
Exit(a, out) ==
    IF out.result = "Ok" /\ SerializedSize(out.state) > Space
    THEN Fail(a, "AccountDidNotSerialize")
    ELSE out

\* #[account(init, payer = user, space = ..., seeds = [.., user.key()], bump)]
CreateIncarraAgent(a, user, out) ==
    IF initialized THEN Fail(a, "AccountAlreadyInUse")
    ELSE IF user # AccountUser THEN Fail(a, "ConstraintSeeds")
    ELSE Exit(a, out)

\* Mutant: the accounts are validated without has_one.
UpdateIncarra_NoHasOne(a, owner, out) ==
    IF ~initialized THEN Fail(a, "AccountNotInitialized")
    ELSE Exit(a, out)

\* #[account(mut, has_one = owner, seeds = [.., owner.key()], bump)]
UpdateIncarra(a, owner, out) ==
    IF ~initialized THEN Fail(a, "AccountNotInitialized")
    ELSE IF owner # a.owner THEN Fail(a, "ConstraintHasOne")
    ELSE Exit(a, out)

(***************************************************************************)
(* Inputs                                                                  *)
(***************************************************************************)
CreateInputs ==
    { [agent_name |-> MaxAgentNameLen,     personality |-> MaxPersonalityLen,
       carv_id |-> MaxCarvIdLen,     verification_signature |-> 130],
      [agent_name |-> MaxAgentNameLen + 1, personality |-> MaxPersonalityLen,
       carv_id |-> MaxCarvIdLen,     verification_signature |-> 130],
      [agent_name |-> MaxAgentNameLen,     personality |-> MaxPersonalityLen + 1,
       carv_id |-> MaxCarvIdLen,     verification_signature |-> 130],
      [agent_name |-> MaxAgentNameLen,     personality |-> MaxPersonalityLen,
       carv_id |-> MaxCarvIdLen + 1, verification_signature |-> 130],
      [agent_name |-> MaxAgentNameLen,     personality |-> MaxPersonalityLen,
       carv_id |-> 0,                verification_signature |-> 130] }

ProofInputs == {MinProofLen - 1, MinProofLen}

CredentialInputs ==
    { [credential_type |-> 10, credential_data |-> 50, issuer |-> 10],
      [credential_type |-> 10, credential_data |-> 900, issuer |-> 10] }

AchievementInputs ==
    { [name |-> 10, description |-> 30, score |-> 5],
      [name |-> 10, description |-> 30, score |-> U64Max] }

InteractionInputs ==
    { [interaction_type |-> "ResearchQuery",  experience_gained |-> 20],
      [interaction_type |-> "DataAnalysis",   experience_gained |-> 250],
      [interaction_type |-> "Conversation",   experience_gained |-> 0],
      [interaction_type |-> "ProblemSolving", experience_gained |-> U64Max] }

PersonalityInputs == {0, MaxPersonalityLen + 1}

\* A name already in the list, the next fresh name, or an over-long name.
KnowledgeAreaInputs(a) ==
    { a.knowledge_areas[i] : i \in 1..Len(a.knowledge_areas) }
      \cup { [len |-> MaxKnowledgeAreaLen, id |-> Len(a.knowledge_areas) + 1],
             [len |-> MaxKnowledgeAreaLen + 1, id |-> 0] }

\* Every input signed by the account's user, one input signed by another user.
Signed(inputs) ==
    { [signer |-> AccountUser, input |-> i] : i \in inputs }
      \cup { [signer |-> u, input |-> CHOOSE i \in inputs : TRUE] : u \in Users \ {AccountUser} }

(***************************************************************************)
(* Exploration bound. The cost of a state counts how far it is from a      *)
(* freshly created account with inputs of the declared sizes; the model    *)
(* visits the states of cost at most MaxCost. A list of more than          *)
(* ShortList entries costs the same whatever its length, so each list is   *)
(* filled to its capacity. A rejected instruction costs one unit while it  *)
(* is the last instruction and a tick of the clock costs two. Large        *)
(* credentials are free at the front of the list and cost one unit each    *)
(* behind a small one, so the account is filled to its byte size in one    *)
(* order of insertion.                                                     *)
(***************************************************************************)
ExtremeAchievement(x) == IF x.score > 100 THEN 1 ELSE 0
LargeCredential(c) == c.credential_data > 100
OutOfOrder(s) ==
    Cardinality({ i \in 1..Len(s) :
                    LargeCredential(s[i]) /\ \E j \in 1..(i - 1) : ~LargeCredential(s[j]) })
ListCost(n) == IF n <= ShortList THEN n ELSE ShortList + 1
Flag(b) == IF b THEN 1 ELSE 0

Cost(a, now, bonus, res) ==
      Flag(res \notin {"Ok", "none"})
    + Flag(a.agent_name > MaxAgentNameLen)
    + Flag(a.personality # MaxPersonalityLen /\ a.personality # 0)
    + Flag(a.personality = 0 /\ a.owner # "none")
    + Flag(~a.is_active /\ a.owner # "none")
    + 2 * now
    + Flag(bonus > VerifiedBonus) * ((bonus \div VerifiedBonus) - 1)
    + a.total_interactions
    + ListCost(Len(a.knowledge_areas))
    + ListCost(Len(a.credentials)) + OutOfOrder(a.credentials)
    + ListCost(Len(a.achievements)) + Sum([i \in DOMAIN a.achievements |-> ExtremeAchievement(a.achievements[i])])

(***************************************************************************)
(* The documented table of reputation gains, by which the history of the   *)
(* interactions is kept: ResearchQuery 3, DataAnalysis 5, Conversation 1,  *)
(* ProblemSolving 4, and 1 more on a verified record.                      *)
(***************************************************************************)
TableGain(interaction_type, verified) ==
    (CASE interaction_type = "ResearchQuery" -> 3
       [] interaction_type = "DataAnalysis" -> 5
       [] interaction_type = "Conversation" -> 1
       [] interaction_type = "ProblemSolving" -> 4)
    + (IF verified THEN 1 ELSE 0)

(***************************************************************************)
(* Actions: one per instruction. Each records the instruction, its result  *)
(* and its events, and stores the account data the instruction leaves.     *)
(***************************************************************************)
WithinBound == Cost(incarra, clock, verify_bonus, result) <= MaxCost

CreateAgent ==
    \E c \in Signed(CreateInputs) :
        LET out == CreateIncarraAgent(incarra, c.signer,
                       create_incarra_agent(incarra, c.signer, c.input.agent_name,
                       c.input.personality, c.input.carv_id,
                       c.input.verification_signature, clock))
        IN  /\ call' = "create_incarra_agent"
            /\ result' = out.result
            /\ events' = out.events
            /\ incarra' = out.state
            /\ initialized' = (initialized \/ out.result = "Ok")
            /\ UNCHANGED <<clock, overflow_checks, interactions_ok, verify_bonus,
                           verifies_ok, interaction_gains>>
            /\ WithinBound'

VerifyCarvId ==
    \E c \in Signed(ProofInputs) :
        LET out == UpdateIncarra(incarra, c.signer, verify_carv_id(incarra, c.input, clock))
        IN  /\ call' = "verify_carv_id"
            /\ result' = out.result
            /\ events' = out.events
            /\ incarra' = out.state
            /\ verify_bonus' = verify_bonus + (out.state.reputation - incarra.reputation)
            /\ verifies_ok' = IF out.result = "Ok" THEN verifies_ok + 1 ELSE verifies_ok
            /\ UNCHANGED <<initialized, clock, overflow_checks, interactions_ok,
                           interaction_gains>>
            /\ WithinBound'

AddCredential ==
    \E c \in Signed(CredentialInputs) :
        LET out == UpdateIncarra(incarra, c.signer,
                       add_credential(incarra, c.input.credential_type,
                       c.input.credential_data, c.input.issuer, clock))
        IN  /\ call' = "add_credential"
            /\ result' = out.result
            /\ events' = out.events
            /\ incarra' = out.state
            /\ UNCHANGED <<initialized, clock, overflow_checks, interactions_ok, verify_bonus,
                           verifies_ok, interaction_gains>>
            /\ WithinBound'

AddAchievement ==
    \E c \in Signed(AchievementInputs) :
        LET out == UpdateIncarra(incarra, c.signer,
                       add_achievement(incarra, c.input.name, c.input.description,
                       c.input.score, clock))
        IN  /\ call' = "add_achievement"
            /\ result' = out.result
            /\ events' = out.events
            /\ incarra' = out.state
            /\ UNCHANGED <<initialized, clock, overflow_checks, interactions_ok, verify_bonus,
                           verifies_ok, interaction_gains>>
            /\ WithinBound'

Interact ==
    \E c \in Signed(InteractionInputs) :
        LET out == UpdateIncarra(incarra, c.signer,
                       interact_with_incarra(incarra, c.input.interaction_type,
                       c.input.experience_gained, clock))
        IN  /\ call' = "interact_with_incarra"
            /\ result' = out.result
            /\ events' = out.events
            /\ incarra' = out.state
            /\ interactions_ok' = IF out.result = "Ok" THEN interactions_ok + 1
                                                     ELSE interactions_ok
            /\ interaction_gains' =
                  IF out.result = "Ok"
                  THEN interaction_gains
                         + TableGain(c.input.interaction_type, incarra.carv_verified)
                  ELSE interaction_gains
            /\ UNCHANGED <<initialized, clock, overflow_checks, verify_bonus, verifies_ok>>
            /\ WithinBound'

AddKnowledgeArea ==
    \E c \in Signed(KnowledgeAreaInputs(incarra)) :
        LET out == UpdateIncarra(incarra, c.signer, add_knowledge_area(incarra, c.input))
        IN  /\ call' = "add_knowledge_area"
            /\ result' = out.result
            /\ events' = out.events
            /\ incarra' = out.state
            /\ UNCHANGED <<initialized, clock, overflow_checks, interactions_ok, verify_bonus,
                           verifies_ok, interaction_gains>>
            /\ WithinBound'

UpdatePersonality ==
    \E c \in Signed(PersonalityInputs) :
        LET out == UpdateIncarra(incarra, c.signer, update_personality(incarra, c.input))
        IN  /\ call' = "update_personality"
            /\ result' = out.result
            /\ events' = out.events
            /\ incarra' = out.state
            /\ UNCHANGED <<initialized, clock, overflow_checks, interactions_ok, verify_bonus,
                           verifies_ok, interaction_gains>>
            /\ WithinBound'

Deactivate ==
    \E signer \in Users :
        LET out == UpdateIncarra(incarra, signer, deactivate_incarra(incarra))
        IN  /\ call' = "deactivate_incarra"
            /\ result' = out.result
            /\ events' = out.events
            /\ incarra' = out.state
            /\ UNCHANGED <<initialized, clock, overflow_checks, interactions_ok, verify_bonus,
                           verifies_ok, interaction_gains>>
            /\ WithinBound'

\* The trusted clock advances between instructions.
Tick ==
    /\ clock' = clock + 1
    /\ UNCHANGED <<initialized, incarra, overflow_checks, call, result, events,
                   interactions_ok, verify_bonus, verifies_ok, interaction_gains>>
    /\ WithinBound'

Init ==
    /\ initialized = FALSE
    /\ incarra = ZeroAccount
    /\ clock = 0
    /\ overflow_checks \in BOOLEAN
    /\ call = "none"
    /\ result = "none"
    /\ events = <<>>
    /\ interactions_ok = 0
    /\ verify_bonus = 0
    /\ verifies_ok = 0
    /\ interaction_gains = 0

Next ==
    \/ CreateAgent
    \/ VerifyCarvId
    \/ AddCredential
    \/ AddAchievement
    \/ Interact
    \/ AddKnowledgeArea
    \/ UpdatePersonality
    \/ Deactivate
    \/ Tick

Spec == Init /\ [][Next]_vars

(***************************************************************************)
(* The instructions as the account's owner invokes them on account data a, *)
(* used to state what an instruction does in a reachable state.            *)
(***************************************************************************)
CreateAs(a, i) ==
    CreateIncarraAgent(a, AccountUser,
        create_incarra_agent(a, AccountUser, i.agent_name, i.personality, i.carv_id,
                             i.verification_signature, clock))
VerifyAs(a, proof) == UpdateIncarra(a, a.owner, verify_carv_id(a, proof, clock))
AddCredentialAs(a, c) ==
    UpdateIncarra(a, a.owner,
        add_credential(a, c.credential_type, c.credential_data, c.issuer, clock))
AddKnowledgeAreaAs(a, k) == UpdateIncarra(a, a.owner, add_knowledge_area(a, k))
UpdatePersonalityAs(a, p) == UpdateIncarra(a, a.owner, update_personality(a, p))

\* Names not in the list, of every accepted length.
FreshKnowledgeAreas(a) ==
    { [len |-> n, id |-> Len(a.knowledge_areas) + 1] : n \in {0, 1, MaxKnowledgeAreaLen} }

Instructions ==
    {"create_incarra_agent", "verify_carv_id", "add_credential", "add_achievement",
     "interact_with_incarra", "add_knowledge_area", "update_personality",
     "deactivate_incarra"}

(***************************************************************************)
(* C1. In every state reachable from create, level equals                  *)
(* experience / 100 + 1 (integer division).                                *)
(* Violated: when experience wraps around in a build without overflow      *)
(* checks the level-up check finds new_level <= level and keeps the old    *)
(* level.                                                                  *)
(***************************************************************************)
C1_LevelFromExperience ==
    initialized => incarra.level = (incarra.experience \div 100) + 1

(***************************************************************************)
(* C2. verify_identity grants the +50 reputation bonus at most once: a     *)
(* call on an already verified record is rejected or leaves reputation     *)
(* unchanged, and the reputation gained from verification never exceeds    *)
(* 50.                                                                     *)
(* Violated: verify_carv_id adds 50 on every call with a valid proof.      *)
(***************************************************************************)
C2_VerifyBonusOnce == verify_bonus <= 50

(***************************************************************************)
(* C3. add_credential on an unverified record fails with CarvIdNotVerified *)
(* and changes nothing; on a verified record holding fewer than 10         *)
(* credentials it succeeds, appends exactly one credential with            *)
(* is_verified = false, adds exactly 10 to reputation_score and leaves     *)
(* reputation unchanged.                                                   *)
(* Violated: the call fails on a verified record with room in the list     *)
(* when the data no longer fits the account's space or when                *)
(* reputation_score + 10 overflows (and wraps in a build without checks).  *)
(***************************************************************************)
C3_AddCredential ==
    initialized =>
        \A c \in CredentialInputs :
           LET out == AddCredentialAs(incarra, c)
           IN  /\ ~incarra.carv_verified =>
                     /\ out.result = "CarvIdNotVerified"
                     /\ out.state = incarra
                     /\ out.events = <<>>
               /\ (incarra.carv_verified /\ Len(incarra.credentials) < 10) =>
                     /\ out.result = "Ok"
                     /\ Len(out.state.credentials) = Len(incarra.credentials) + 1
                     /\ SubSeq(out.state.credentials, 1, Len(incarra.credentials))
                          = incarra.credentials
                     /\ out.state.credentials[Len(out.state.credentials)].is_verified = FALSE
                     /\ out.state.reputation_score = incarra.reputation_score + 10
                     /\ out.state.reputation = incarra.reputation

(***************************************************************************)
(* C4. Every over-long string input is rejected with a too-long error and  *)
(* no state change: a 51-character agent name, a 201-character personality *)
(* or a 43-character identity claim passed to create, a 201-character      *)
(* personality passed to update_personality, a 31-character name passed to *)
(* add_knowledge_area. (InvalidCarvId is taken as the too-long error of    *)
(* the identity claim.)                                                    *)
(* Violated: create_incarra_agent checks neither agent_name nor            *)
(* personality.                                                            *)
(***************************************************************************)
TooLongErrors ==
    {"AgentNameTooLong", "PersonalityTooLong", "KnowledgeAreaTooLong", "InvalidCarvId"}

C4_OverLongRejected ==
    /\ (call = "create_incarra_agent" /\ result = "Ok") =>
          /\ incarra.agent_name <= 50
          /\ incarra.personality <= 200
          /\ incarra.carv_id <= 42
    /\ (call = "create_incarra_agent" /\ result \notin {"Ok", "AccountAlreadyInUse", "ConstraintSeeds"}) =>
          result \in TooLongErrors /\ ~initialized /\ incarra = ZeroAccount /\ events = <<>>
    /\ initialized =>
          /\ LET out == UpdatePersonalityAs(incarra, 201)
             IN  out.result \in TooLongErrors /\ out.state = incarra /\ out.events = <<>>
          /\ LET out == AddKnowledgeAreaAs(incarra, [len |-> 31, id |-> 0])
             IN  out.result \in TooLongErrors /\ out.state = incarra /\ out.events = <<>>

(***************************************************************************)
(* C5. add_knowledge_area with a name already in knowledge_areas is a      *)
(* silent no-op that returns success, never an error, whatever the number  *)
(* of knowledge areas (0 to 20).                                           *)
(* Violated: with 20 entries the capacity check, made before the           *)
(* duplicate check, returns TooManyKnowledgeAreas.                         *)
(***************************************************************************)
C5_DuplicateIsNoOp ==
    initialized =>
        \A i \in 1..Len(incarra.knowledge_areas) :
           LET out == AddKnowledgeAreaAs(incarra, incarra.knowledge_areas[i])
           IN  out.result = "Ok" /\ out.state = incarra /\ out.events = <<>>

(***************************************************************************)
(* C6. Adding the same knowledge area twice in a row is idempotent: the    *)
(* second call leaves knowledge_areas unchanged in length, order and       *)
(* content, leaves reputation and reputation_score unchanged and emits no  *)
(* KnowledgeAreaAdded event.                                               *)
(***************************************************************************)
C6_SecondAddIdempotent ==
    initialized =>
        \A k \in KnowledgeAreaInputs(incarra) \cup FreshKnowledgeAreas(incarra) :
           LET first == AddKnowledgeAreaAs(incarra, k)
               second == AddKnowledgeAreaAs(first.state, k)
           IN  /\ second.state.knowledge_areas = first.state.knowledge_areas
               /\ second.state.reputation = first.state.reputation
               /\ second.state.reputation_score = first.state.reputation_score
               /\ second.events = <<>>

\* A duplicate has been added: the only success of add_knowledge_area without an event.
C6_Witness ==
    /\ call = "add_knowledge_area" /\ result = "Ok" /\ events = <<>>
    /\ Len(incarra.knowledge_areas) > 1

(***************************************************************************)
(* C7. In every reachable state knowledge_areas has at most 20 entries,    *)
(* pairwise distinct, credentials at most 10 and achievements at most 20.  *)
(* (A handler is one atomic step whose only write to a list is the push    *)
(* behind the capacity check, so the lists of the states are the lists of  *)
(* every intermediate point.)                                              *)
(***************************************************************************)
C7_CapacityBounds ==
    /\ Len(incarra.knowledge_areas) <= 20
    /\ \A i, j \in 1..Len(incarra.knowledge_areas) :
          i # j => incarra.knowledge_areas[i] # incarra.knowledge_areas[j]
    /\ Len(incarra.credentials) <= 10
    /\ Len(incarra.achievements) <= 20

\* A full list has turned a further entry away.
C7_Witness ==
    \/ Len(incarra.credentials) = 10 /\ result = "TooManyCredentials"
    \/ Len(incarra.achievements) = 20 /\ result = "TooManyAchievements"

(***************************************************************************)
(* C8. With knowledge_areas holding 20 entries, add_knowledge_area with a  *)
(* 21st distinct name of valid length fails with TooManyKnowledgeAreas and *)
(* leaves the same 20 entries, reputation and reputation_score.            *)
(***************************************************************************)
C8_TwentyFirstRejected ==
    (initialized /\ Len(incarra.knowledge_areas) = 20) =>
        \A k \in FreshKnowledgeAreas(incarra) :
           LET out == AddKnowledgeAreaAs(incarra, k)
           IN  /\ out.result = "TooManyKnowledgeAreas"
               /\ out.state.knowledge_areas = incarra.knowledge_areas
               /\ out.state.reputation = incarra.reputation
               /\ out.state.reputation_score = incarra.reputation_score

C8_Witness ==
    /\ Len(incarra.knowledge_areas) = 20
    /\ call = "add_knowledge_area" /\ result = "TooManyKnowledgeAreas"

(***************************************************************************)
(* C9. After N successful record_interaction calls total_interactions      *)
(* equals N, and in every reachable state research_projects +              *)
(* data_sources_connected + ai_conversations equals total_interactions.    *)
(***************************************************************************)
C9_InteractionCounters ==
    /\ incarra.total_interactions = interactions_ok
    /\ incarra.research_projects + incarra.data_sources_connected
         + incarra.ai_conversations = incarra.total_interactions

C9_Witness ==
    /\ interactions_ok = 3
    /\ incarra.research_projects > 0
    /\ incarra.data_sources_connected > 0

(***************************************************************************)
(* C10. Every failing operation is all-or-nothing: when an instruction     *)
(* returns an error, every field of the record equals its value before the *)
(* call and no event is emitted.                                           *)
(***************************************************************************)
C10_FailureChangesNothing ==
    [][ (clock' = clock /\ call' \in Instructions /\ result' # "Ok") =>
            (incarra' = incarra /\ initialized' = initialized /\ events' = <<>>) ]_vars

\* A rejected instruction on an account that instructions have changed.
C10_Witness ==
    /\ call = "verify_carv_id" /\ result = "InvalidVerificationProof"
    /\ incarra.carv_verified /\ Len(incarra.achievements) > 0

(***************************************************************************)
(* C11. owner is set to the creating caller at create and never changes    *)
(* afterwards, and every mutating instruction (interact_with_incarra,      *)
(* verify_carv_id, add_credential, add_achievement, add_knowledge_area,    *)
(* update_personality, deactivate_incarra) invoked by a caller different   *)
(* from owner is rejected and leaves the record unchanged.                 *)
(***************************************************************************)
Rejected(a, out) == out.result # "Ok" /\ out.state = a /\ out.events = <<>>

C11_CreateSetsOwner ==
    ~initialized =>
        \A u \in Users : \A i \in CreateInputs :
           LET out == CreateIncarraAgent(incarra, u,
                          create_incarra_agent(incarra, u, i.agent_name, i.personality,
                                               i.carv_id, i.verification_signature, clock))
           IN  out.result = "Ok" => out.state.owner = u

C11_OthersRejected ==
    initialized =>
        \A u \in Users \ {incarra.owner} :
           /\ \A i \in InteractionInputs :
                 Rejected(incarra, UpdateIncarra(incarra, u,
                     interact_with_incarra(incarra, i.interaction_type,
                                           i.experience_gained, clock)))
           /\ \A proof \in ProofInputs :
                 Rejected(incarra, UpdateIncarra(incarra, u,
                     verify_carv_id(incarra, proof, clock)))
           /\ \A c \in CredentialInputs :
                 Rejected(incarra, UpdateIncarra(incarra, u,
                     add_credential(incarra, c.credential_type, c.credential_data,
                                    c.issuer, clock)))
           /\ \A x \in AchievementInputs :
                 Rejected(incarra, UpdateIncarra(incarra, u,
                     add_achievement(incarra, x.name, x.description, x.score, clock)))
           /\ \A k \in KnowledgeAreaInputs(incarra) :
                 Rejected(incarra, UpdateIncarra(incarra, u,
                     add_knowledge_area(incarra, k)))
           /\ \A personality \in PersonalityInputs \cup {MaxPersonalityLen} :
                 Rejected(incarra, UpdateIncarra(incarra, u,
                     update_personality(incarra, personality)))
           /\ Rejected(incarra, UpdateIncarra(incarra, u, deactivate_incarra(incarra)))

C11_OwnerOnly ==
    /\ [](C11_CreateSetsOwner /\ C11_OthersRejected)
    /\ [][initialized => incarra'.owner = incarra.owner]_vars

\* Another caller's instruction has been turned away from a created account.
C11_Witness ==
    /\ initialized /\ incarra.owner = AccountUser
    /\ call \in Instructions \ {"create_incarra_agent"}
    /\ result = "ConstraintHasOne"

(***************************************************************************)
(* C12. reputation and reputation_score are non-decreasing: no step lowers *)
(* either accumulator, whatever experience_gained and achievement score    *)
(* the caller supplies in the u64 range.                                   *)
(* Violated: in a build without overflow checks add_achievement with a     *)
(* score that carries reputation_score past the largest u64 succeeds and   *)
(* leaves a smaller reputation_score.                                      *)
(***************************************************************************)
C12_ReputationNonDecreasing ==
    [][ /\ incarra'.reputation >= incarra.reputation
        /\ incarra'.reputation_score >= incarra.reputation_score ]_vars

(***************************************************************************)
(* C13. The two status flags are one-way: carv_verified is false after     *)
(* create and, once true, is false in no later state; is_active is true    *)
(* after create and, once deactivate_incarra has cleared it, is true in no *)
(* later state.                                                            *)
(***************************************************************************)
C13_FlagsOneWay ==
    /\ []((call = "create_incarra_agent" /\ result = "Ok") =>
             (~incarra.carv_verified /\ incarra.is_active))
    /\ [][ /\ (initialized /\ incarra.carv_verified) => incarra'.carv_verified
           /\ (initialized /\ ~incarra.is_active) => ~incarra'.is_active ]_vars

\* An instruction has succeeded on a verified, deactivated account.
C13_Witness ==
    /\ incarra.carv_verified /\ initialized /\ ~incarra.is_active
    /\ call = "interact_with_incarra" /\ result = "Ok"

(***************************************************************************)
(* C14. After any sequence of successful operations the serialized size of *)
(* the record never exceeds the space allocated at create (4052 bytes, the *)
(* sum of the per-field maxima), for all string lengths the operations     *)
(* accept: the record stored fits, and so does the record every handler    *)
(* leaves when it accepts its inputs.                                      *)
(* Violated: add_credential checks the number of credentials and none of   *)
(* its string lengths, so it accepts a credential that takes the record    *)
(* past the space; the record is then refused when it is written back.     *)
(***************************************************************************)
Fits(out) == out.result = "Ok" => SerializedSize(out.state) <= Space

IsLevelUp(e) == e.event = "IncarraLevelUp"

C15_LevelUpEvent ==
    [][ (clock' = clock /\ call' = "interact_with_incarra" /\ result' = "Ok") =>
            LET ups == SelectSeq(events', IsLevelUp)
            IN  IF incarra'.level > incarra.level
                THEN /\ Len(ups) = 1
                     /\ ups[1].old_level = incarra.level
                     /\ ups[1].new_level = incarra'.level
                ELSE ups = <<>> ]_vars

(***************************************************************************)
(* C16. A successful interact_with_incarra(interaction_type,               *)
(* experience_gained) is the reference transform: total_interactions + 1;  *)
(* experience + experience_gained; reputation and reputation_score each    *)
(* increased by the table's gain (plus 1 on a verified record); one        *)
(* counter + 1 (ResearchQuery and ProblemSolving: research_projects,       *)
(* DataAnalysis: data_sources_connected, Conversation: ai_conversations);  *)
(* last_interaction the clock's value; every other field but level         *)
(* unchanged. The arguments of the call are read from its                  *)
(* IncarraInteraction event.                                               *)
(* Violated: in a build without overflow checks a call whose               *)
(* experience_gained carries experience past the largest u64 succeeds and  *)
(* stores the sum reduced modulo 2^64.                                     *)
(***************************************************************************)
C16_InteractionTransform ==
    [][ (clock' = clock /\ call' = "interact_with_incarra" /\ result' = "Ok") =>
            LET ev == events'[Len(events')]
                category == ev.interaction_type
                gain == TableGain(category, incarra.carv_verified)
                research == IF category \in {"ResearchQuery", "ProblemSolving"} THEN 1 ELSE 0
                data == IF category = "DataAnalysis" THEN 1 ELSE 0
                conversations == IF category = "Conversation" THEN 1 ELSE 0
            IN  incarra' = [incarra EXCEPT
                               !.total_interactions = @ + 1,
                               !.experience = @ + ev.experience_gained,
                               !.reputation = @ + gain,
                               !.reputation_score = @ + gain,
                               !.research_projects = @ + research,
                               !.data_sources_connected = @ + data,
                               !.ai_conversations = @ + conversations,
                               !.last_interaction = clock,
                               !.level = incarra'.level] ]_vars

(***************************************************************************)
(* C17. Every successful interact_with_incarra call emits exactly one      *)
(* IncarraInteraction event, whether or not it also emits an               *)
(* IncarraLevelUp event; it is the last event of the call, every event     *)
(* before it is a level-up event, and its new_reputation is the record's   *)
(* reputation after the call.                                              *)
(***************************************************************************)
IsInteraction(e) == e.event = "IncarraInteraction"

C17_InteractionEvent ==
    (call = "interact_with_incarra" /\ result = "Ok") =>
        /\ Len(SelectSeq(events, IsInteraction)) = 1
        /\ IsInteraction(events[Len(events)])
        /\ \A n \in 1..(Len(events) - 1) : IsLevelUp(events[n])
        /\ events[Len(events)].new_reputation = incarra.reputation

\* A call on a verified record that raised the level: two events.
C17_Witness ==
    /\ call = "interact_with_incarra" /\ result = "Ok"
    /\ Len(events) = 2 /\ incarra.carv_verified /\ incarra.reputation > VerifiedBonus

(***************************************************************************)
(* C18. is_active is checked by no instruction: on a record with           *)
(* is_active = false every mutating instruction (interact_with_incarra,    *)
(* verify_carv_id, add_credential, add_achievement, add_knowledge_area,    *)
(* update_personality) returns the same result, emits the same events and  *)
(* makes the same field changes as on the otherwise identical record with  *)
(* is_active = true, and AgentInactive is the result of no instruction.    *)
(***************************************************************************)
SameWhenInactive(active, inactive) ==
    /\ inactive.result = active.result
    /\ inactive.result # "AgentInactive"
    /\ inactive.events = active.events
    /\ inactive.state = [active.state EXCEPT !.is_active = FALSE]

C18_IsActiveIgnored ==
    /\ result # "AgentInactive"
    /\ initialized =>
          LET on == [incarra EXCEPT !.is_active = TRUE]
              off == [incarra EXCEPT !.is_active = FALSE]
              owner == incarra.owner
          IN  /\ \A i \in InteractionInputs :
                    SameWhenInactive(
                        UpdateIncarra(on, owner, interact_with_incarra(on,
                            i.interaction_type, i.experience_gained, clock)),
                        UpdateIncarra(off, owner, interact_with_incarra(off,
                            i.interaction_type, i.experience_gained, clock)))
              /\ \A proof \in ProofInputs :
                    SameWhenInactive(
                        UpdateIncarra(on, owner, verify_carv_id(on, proof, clock)),
                        UpdateIncarra(off, owner, verify_carv_id(off, proof, clock)))
              /\ \A c \in CredentialInputs :
                    SameWhenInactive(
                        UpdateIncarra(on, owner, add_credential(on, c.credential_type,
                            c.credential_data, c.issuer, clock)),
                        UpdateIncarra(off, owner, add_credential(off, c.credential_type,
                            c.credential_data, c.issuer, clock)))
              /\ \A x \in AchievementInputs :
                    SameWhenInactive(
                        UpdateIncarra(on, owner, add_achievement(on, x.name,
                            x.description, x.score, clock)),
                        UpdateIncarra(off, owner, add_achievement(off, x.name,
                            x.description, x.score, clock)))
              /\ \A k \in KnowledgeAreaInputs(incarra) :
                    SameWhenInactive(
                        UpdateIncarra(on, owner, add_knowledge_area(on, k)),
                        UpdateIncarra(off, owner, add_knowledge_area(off, k)))
              /\ \A personality \in PersonalityInputs \cup {MaxPersonalityLen} :
                    SameWhenInactive(
                        UpdateIncarra(on, owner, update_personality(on, personality)),
                        UpdateIncarra(off, owner, update_personality(off, personality)))

\* A knowledge area has been added to a deactivated record.
C18_Witness ==
    /\ initialized /\ ~incarra.is_active
    /\ call = "add_knowledge_area" /\ result = "Ok" /\ Len(events) = 1

(***************************************************************************)
(* C19. In every reachable state a non-empty credentials list implies      *)
(* carv_verified; TooManyCredentials is only ever returned on a verified   *)
(* record; on an unverified record add_credential returns                  *)
(* CarvIdNotVerified whatever the length of the list.                      *)
(***************************************************************************)
C19_CredentialsNeedVerified ==
    /\ Len(incarra.credentials) > 0 => incarra.carv_verified
    /\ result = "TooManyCredentials" => incarra.carv_verified
    /\ initialized =>
          \A c \in CredentialInputs :
             LET unverified == [incarra EXCEPT !.carv_verified = FALSE]
                 out == AddCredentialAs(unverified, c)
             IN  out.result = "CarvIdNotVerified" /\ out.state = unverified

\* The capacity error has been returned.
C19_Witness ==
    /\ call = "add_credential" /\ result = "TooManyCredentials"
    /\ incarra.carv_verified /\ Len(incarra.credentials) = MaxCredentials

(***************************************************************************)
(* C20. In every reachable state, absent arithmetic overflow,              *)
(* reputation_score is the sum of the reputation gains of the successful   *)
(* interact_with_incarra calls, plus 2 for each knowledge area, plus 10    *)
(* for each credential, plus the scores of the achievements; reputation is *)
(* the same gains plus 2 for each knowledge area plus 50 for each          *)
(* successful verify_carv_id call. (Each accumulator only grows, so none   *)
(* of its additions has overflowed while the sum is below 2^64.)           *)
(***************************************************************************)
C20_ReputationAccounting ==
    initialized =>
        LET scores == Sum([n \in DOMAIN incarra.achievements |->
                              incarra.achievements[n].score])
            reputation_score == interaction_gains
                                  + 2 * Len(incarra.knowledge_areas)
                                  + 10 * Len(incarra.credentials)
                                  + scores
            reputation == interaction_gains
                            + 2 * Len(incarra.knowledge_areas)
                            + 50 * verifies_ok
        IN  /\ reputation_score < U64Modulus =>
                  incarra.reputation_score = reputation_score
            /\ reputation < U64Modulus =>
                  incarra.reputation = reputation

\* Interactions, a knowledge area, an achievement and a verification, no overflow.
C20_Witness ==
    /\ verifies_ok >= 1 /\ interactions_ok >= 1
    /\ Len(incarra.knowledge_areas) >= 1 /\ Len(incarra.achievements) >= 1
    /\ incarra.reputation_score = incarra.reputation - 50 * verifies_ok
                                    + incarra.achievements[1].score

====
